---- MODULE Spec2Model ----
(***************************************************************************)
(* The Node.js binding of the ai-coustics SDK (src/src/binding.cc).        *)
(*                                                                         *)
(* The binding is glue: every exported function unwraps a JavaScript       *)
(* External into an AicModel pointer, converts the numeric arguments and   *)
(* forwards them to the SDK (aic.h), returning the SDK's error code.  The  *)
(* binding keeps no state of its own about a model: the only state is the  *)
(* SDK's model objects, the Externals JavaScript holds and the model_      *)
(* pointer of each ModelWrapper.                                           *)
(*                                                                         *)
(* The SDK itself (the aic_* functions) is not part of the sources; its    *)
(* behaviour is taken from the specification's state machine (sections 4   *)
(* and 7): Created -> Initialized -> Destroyed.                            *)
(***************************************************************************)
EXTENDS Integers, Sequences, FiniteSets, TLC

VARIABLES
    models,     \* the SDK's model objects, by address (1..MaxModels)
    handles,    \* addresses of the Externals createModel has handed to JavaScript
    wrappers,   \* model_ of each ModelWrapper object (0: nullptr / no object)
    last        \* the latest call: its arguments, what it did and what it returned

vars == <<models, handles, wrappers, last>>

(***************************************************************************)
(* Bounds of the model.                                                    *)
(***************************************************************************)
MaxModels == 1          \* models createModel may allocate
MaxWrappers == 1        \* ModelWrapper objects alive at a time
MaxDestroyCalls == 2    \* aic_model_destroy invocations followed per model
MaxFrames == 2          \* largest num_frames argument

ModelIds == 1..MaxModels
WrapperIds == 1..MaxWrappers

(***************************************************************************)
(* The SDK, as the specification describes it.                             *)
(***************************************************************************)
ErrorCodes ==
    {"Success", "InvalidModelType", "LicenseRejected", "NotInitialized",
     "InvalidArgument", "UnsupportedFormat", "InvalidHandle", "InternalError"}

\* Model variants the SDK knows, and the one key its license check accepts.
ModelTypes == {0, 1}
ValidKey == "valid-key"

\* Channel counts the variant supports.
SupportedChannels == 1..2

\* The named parameters, each with its declared range and default.
ParamInfo == [p \in {0} |-> [lo |-> 0, hi |-> 1, def |-> 1]]
Params == DOMAIN ParamInfo

DefaultParams == [p \in Params |-> ParamInfo[p].def]

\* The memory of a model that does not exist (yet).
NoModel ==
    [state |-> "Absent", sampleRate |-> 0, numChannels |-> 0, numFrames |-> 0,
     params |-> DefaultParams, destroyCalls |-> 0]

\* aic_model_create: the error code; on Success a model is allocated.
aic_model_create(model_type, license_key) ==
    IF model_type \notin ModelTypes THEN "InvalidModelType"
    ELSE IF license_key # ValidKey THEN "LicenseRejected"
    ELSE "Success"

\* A newly allocated model: state Created.
NewModel == [NoModel EXCEPT !.state = "Created"]

\* aic_model_destroy on a live model: its memory is released.
aic_model_destroy(m) ==
    [NoModel EXCEPT !.state = "Destroyed", !.destroyCalls = m.destroyCalls + 1]

\* aic_model_initialize: legal from Created and Initialized; a failure leaves
\* the model as it was; parameter values survive re-initialization.
aic_model_initialize(m, sample_rate, num_channels, num_frames) ==
    IF sample_rate = 0 \/ num_channels = 0 \/ num_frames = 0
    THEN [err |-> "InvalidArgument", model |-> m]
    ELSE IF num_channels \notin SupportedChannels
    THEN [err |-> "UnsupportedFormat", model |-> m]
    ELSE [err |-> "Success",
          model |-> [m EXCEPT !.state = "Initialized",
                              !.sampleRate = sample_rate,
                              !.numChannels = num_channels,
                              !.numFrames = num_frames]]

\* aic_model_reset: legal only in Initialized; keeps format and parameters.
aic_model_reset(m) ==
    IF m.state = "Initialized" THEN "Success" ELSE "NotInitialized"

\* The state and format checks of both process calls.
ProcessError(m, num_channels, num_frames) ==
    IF m.state # "Initialized" THEN "NotInitialized"
    ELSE IF num_channels # m.numChannels \/ num_frames # m.numFrames
              \/ num_frames = 0
    THEN "InvalidArgument"
    ELSE "Success"

\* The opaque transform of one sample.
Transform(x) == (x + 1) % 3

\* aic_model_process_interleaved: the SDK receives a bare pointer and works on
\* the first num_channels * num_frames samples behind it.  `data` is the
\* memory the pointer really owns; `oob` tells whether the SDK went past it.
aic_model_process_interleaved(m, data, num_channels, num_frames) ==
    LET err == ProcessError(m, num_channels, num_frames)
        n == num_channels * num_frames
    IN  IF err # "Success"
        THEN [err |-> err, data |-> data, oob |-> FALSE]
        ELSE [err |-> err,
              data |-> [i \in 1..Len(data) |->
                            IF i <= n THEN Transform(data[i]) ELSE data[i]],
              oob |-> n > Len(data)]

\* aic_model_process_planar: num_channels pointers, num_frames samples each.
aic_model_process_planar(m, channel_data, num_channels, num_frames) ==
    LET err == ProcessError(m, num_channels, num_frames)
    IN  IF err # "Success"
        THEN [err |-> err, data |-> channel_data, oob |-> FALSE]
        ELSE [err |-> err,
              data |-> [c \in 1..Len(channel_data) |->
                          [i \in 1..Len(channel_data[c]) |->
                              IF c <= num_channels /\ i <= num_frames
                              THEN Transform(channel_data[c][i])
                              ELSE channel_data[c][i]]],
              oob |-> \E c \in 1..num_channels :
                          num_frames > Len(channel_data[c])]

\* aic_model_set_parameter: legal only in Initialized; an unknown parameter or
\* a value outside the declared range is refused and nothing is applied.
aic_model_set_parameter(m, param, value) ==
    IF m.state # "Initialized" THEN [err |-> "NotInitialized", model |-> m]
    ELSE IF param \notin Params THEN [err |-> "InvalidArgument", model |-> m]
    ELSE IF value < ParamInfo[param].lo \/ value > ParamInfo[param].hi
    THEN [err |-> "InvalidArgument", model |-> m]
    ELSE [err |-> "Success", model |-> [m EXCEPT !.params[param] = value]]

\* aic_model_get_parameter: `value` is what the out-parameter holds afterwards
\* (`init` when the SDK did not write it).
aic_model_get_parameter(m, param, init) ==
    IF m.state # "Initialized" THEN [err |-> "NotInitialized", value |-> init]
    ELSE IF param \notin Params THEN [err |-> "InvalidArgument", value |-> init]
    ELSE [err |-> "Success", value |-> m.params[param]]

\* aic_get_output_delay: legal only in Initialized; fixed for a configuration.
aic_get_output_delay(m, init) ==
    IF m.state # "Initialized" THEN [err |-> "NotInitialized", value |-> init]
    ELSE [err |-> "Success", value |-> m.numFrames]

\* aic_get_optimal_sample_rate / aic_get_optimal_num_frames: variant-intrinsic.
aic_get_optimal_sample_rate(m, init) == [err |-> "Success", value |-> 48000]

aic_get_optimal_num_frames(m, init) == [err |-> "Success", value |-> 1]

\* What a call into the SDK with a pointer to released memory can come to: the
\* behaviour is undefined, so any error code, or the process dies.
DanglingOutcomes == ErrorCodes \cup {"Crash"}


(***************************************************************************)
(* JavaScript values and the N-API conversions the binding applies.        *)
(***************************************************************************)
Undefined == [kind |-> "undefined", ptr |-> 0]
Null == [kind |-> "null", ptr |-> 0]
External(p) == [kind |-> "external", ptr |-> p]

IsExternal(v) == v.kind = "external"
Data(v) == v.ptr

\* Numeric arguments are unsigned 32-bit numbers, which Uint32Value() returns
\* as they are; `uint16_t num_channels = ...Uint32Value()` then keeps the low
\* 16 bits.
Uint16(n) == n % 65536

\* A Float32Array of n samples, as the caller fills it before a call.
Float32Array(n) == [i \in 1..n |-> 0]

(***************************************************************************)
(* The arguments JavaScript passes.                                        *)
(***************************************************************************)
HandleArgs == {Undefined} \cup {External(m) : m \in handles}
ModelTypeArgs == ModelTypes \cup {9}
LicenseKeyArgs == {ValidKey, "expired-key"}
SampleRateArgs == {0, 48000}
NumChannelsArgs == {0, 1, 2, 65537}
NumFramesArgs == 0..MaxFrames
\* Interleaved buffers: every length up to a full block of the widest format.
BufferLens == 0..(2 * MaxFrames)
\* Planar buffers: up to two channel arrays of one common length.
PlanarArgs ==
    {[c \in 1..k |-> Float32Array(n)] : k \in 0..2, n \in 0..MaxFrames}
ParamArgs == Params \cup {7}
ValueArgs == -1..2

(***************************************************************************)
(* The record of a call.                                                   *)
(*   h      the handle argument (or the wrapper's model_ as an External)   *)
(*   pre    the state of the model behind h when the call was made         *)
(*   threw  the call raised a JavaScript exception                         *)
(*   ret    the returned error code ("Null": env.Null(); "Crash": the      *)
(*          process died inside the SDK)                                   *)
(*   sdk    the call reached the SDK with the model pointer                *)
(*   stale  ... and the pointer was to a destroyed model                   *)
(*   oob    the SDK accessed memory outside the caller's buffer            *)
(***************************************************************************)
NoCall ==
    [op |-> "none", h |-> Undefined, pre |-> "None", threw |-> FALSE,
     ret |-> "Null", sdk |-> FALSE, stale |-> FALSE, oob |-> FALSE,
     model |-> Null, mt |-> 0, key |-> "",
     sr |-> 0, nc |-> 0, nf |-> 0, vf |-> FALSE,
     typed |-> FALSE, buf |-> <<>>, out |-> <<>>,
     param |-> 0, val |-> 0, value |-> 0, before |-> <<>>]

PreState(h) == IF IsExternal(h) THEN models[Data(h)].state ELSE "None"

Call(op, h) == [NoCall EXCEPT !.op = op, !.h = h, !.pre = PreState(h)]

\* Napi::TypeError::New(...).ThrowAsJavaScriptException(); return env.Null();
Throw(c) == [c EXCEPT !.threw = TRUE, !.ret = "Null"]

\* The SDK is entered with a pointer to a destroyed model: undefined behaviour.
Dangling(c) ==
    /\ \E r \in DanglingOutcomes : last' = [c EXCEPT !.sdk = TRUE, !.stale = TRUE, !.ret = r]
    /\ UNCHANGED <<models, handles, wrappers>>

IsDangling(h) == models[Data(h)].state = "Destroyed"

Init ==
    /\ models = [m \in ModelIds |-> NoModel]
    /\ handles = {}
    /\ wrappers = [w \in WrapperIds |-> 0]
    /\ last = NoCall

(***************************************************************************)
(* Module functions.                                                       *)
(***************************************************************************)
\* The object CreateModel returns, given what aic_model_create produced: a
\* copy of the pointer that is always an External.
CreateModelResultUnchecked(error, model) ==
    [error |-> error, model |-> External(model)]

\* The object CreateModel returns, given what aic_model_create produced.
CreateModelResult(error, model) ==
    [error |-> error,
     model |-> IF error = "Success" /\ model # 0 THEN External(model) ELSE Null]

\* createModel(model_type, license_key); argc is info.Length().
CreateModel ==
    \E argc \in {0, 2} :
        IF argc < 2
        THEN /\ last' = Throw(Call("createModel", Undefined))
             /\ UNCHANGED <<models, handles, wrappers>>
        ELSE \E mt \in ModelTypeArgs, key \in LicenseKeyArgs :
            LET c == [Call("createModel", Undefined) EXCEPT !.mt = mt, !.key = key]
                free == {m \in ModelIds : models[m].state = "Absent"}
                error == aic_model_create(mt, key)
                model == IF error = "Success"
                         THEN CHOOSE m \in free : \A o \in free : m <= o
                         ELSE 0
                result == CreateModelResult(error, model)
            IN  /\ error = "Success" => free # {}
                /\ last' = [c EXCEPT !.sdk = TRUE, !.ret = result.error,
                                     !.model = result.model]
                /\ models' = IF model # 0
                             THEN [models EXCEPT ![model] = NewModel]
                             ELSE models
                /\ handles' = IF IsExternal(result.model)
                              THEN handles \cup {Data(result.model)}
                              ELSE handles
                /\ UNCHANGED wrappers

\* destroyModel(handle): the External keeps its pointer, and nothing tells
\* whether the model behind it was destroyed before.  Destroying it again
\* frees it twice: the call returns or the process dies.
DestroyModel ==
    \E h \in HandleArgs :
        LET c == Call("destroyModel", h)
        IN  IF ~IsExternal(h)
            THEN /\ last' = c
                 /\ UNCHANGED <<models, handles, wrappers>>
            ELSE LET model == Data(h)
                 IN  /\ models[model].destroyCalls < MaxDestroyCalls
                     /\ IF model # 0
                        THEN /\ models' = [models EXCEPT
                                   ![model] = aic_model_destroy(models[model])]
                             /\ \E ret \in IF IsDangling(h) THEN {"Null", "Crash"}
                                                            ELSE {"Null"} :
                                    last' = [c EXCEPT !.sdk = TRUE, !.ret = ret,
                                                      !.stale = IsDangling(h)]
                        ELSE /\ last' = c
                             /\ UNCHANGED models
                     /\ UNCHANGED <<handles, wrappers>>

(***************************************************************************)
(* The exported helper functions (the lambdas of Init).  Each one throws a *)
(* TypeError when its first argument is no External, and otherwise hands   *)
(* the External's pointer to the SDK as it is.  (The record of a call on a *)
(* destroyed model keeps no arguments: they decide nothing.)               *)
(***************************************************************************)
\* initialize(handle, sample_rate, num_channels, num_frames): a fifth
\* argument (variable_frames) is never read.
Initialize ==
    \E h \in HandleArgs :
        IF ~IsExternal(h)
        THEN /\ last' = Throw(Call("initialize", h))
             /\ UNCHANGED <<models, handles, wrappers>>
        ELSE IF IsDangling(h) THEN Dangling(Call("initialize", h))
        ELSE \E sr \in SampleRateArgs, nc \in NumChannelsArgs,
                nf \in NumFramesArgs, vf \in BOOLEAN :
            LET c == [Call("initialize", h) EXCEPT
                          !.sr = sr, !.nc = nc, !.nf = nf, !.vf = vf]
                model == Data(h)
                sample_rate == sr
                num_channels == Uint16(nc)
                num_frames == nf
                r == aic_model_initialize(models[model], sample_rate,
                                          num_channels, num_frames)
            IN  /\ models' = [models EXCEPT ![model] = r.model]
                /\ last' = [c EXCEPT !.sdk = TRUE, !.ret = r.err]
                /\ UNCHANGED <<handles, wrappers>>

\* reset(handle)
Reset ==
    \E h \in HandleArgs :
        LET c == Call("reset", h)
        IN  IF ~IsExternal(h)
            THEN /\ last' = Throw(c)
                 /\ UNCHANGED <<models, handles, wrappers>>
            ELSE IF IsDangling(h) THEN Dangling(c)
            ELSE /\ last' = [c EXCEPT !.sdk = TRUE,
                                      !.ret = aic_model_reset(models[Data(h)])]
                 /\ UNCHANGED <<models, handles, wrappers>>

\* What the processInterleaved lambda hands to the SDK: the array's data
\* pointer and the two dimensions; the array's length is not among them.
InterleavedArgs(array, a2, a3) ==
    [data |-> array, num_channels |-> Uint16(a2), num_frames |-> a3]

\* The end of a process call: the error code comes back, unless the SDK left
\* the caller's memory, where the process may die instead.
Processed(c, r) ==
    /\ \E ret \in IF r.oob THEN {r.err, "Crash"} ELSE {r.err} :
           last' = [c EXCEPT !.sdk = TRUE, !.ret = ret, !.out = r.data,
                             !.oob = r.oob]
    /\ UNCHANGED <<models, handles, wrappers>>

\* processInterleaved(handle, Float32Array, num_channels, num_frames)
ProcessInterleaved ==
    \E h \in HandleArgs, typed \in BOOLEAN :
        IF ~IsExternal(h) \/ ~typed
        THEN /\ last' = Throw([Call("processInterleaved", h) EXCEPT !.typed = typed])
             /\ UNCHANGED <<models, handles, wrappers>>
        ELSE IF IsDangling(h)
        THEN Dangling([Call("processInterleaved", h) EXCEPT !.typed = TRUE])
        ELSE \E len \in BufferLens, nc \in NumChannelsArgs, nf \in NumFramesArgs :
            LET array == Float32Array(len)
                c == [Call("processInterleaved", h) EXCEPT
                          !.typed = TRUE, !.buf = array, !.out = array,
                          !.nc = nc, !.nf = nf]
                a == InterleavedArgs(array, nc, nf)
            IN  Processed(c, aic_model_process_interleaved(
                                 models[Data(h)], a.data, a.num_channels,
                                 a.num_frames))

\* The loop of the processPlanar lambda over the first num_channels elements
\* of the array: TRUE when one of them is no typed array (an index past the
\* array's end reads undefined), which throws.
PlanarLoopThrows(arrays, num_channels) == num_channels > Len(arrays)

\* processPlanar(handle, Array of Float32Array, num_channels, num_frames)
ProcessPlanar ==
    \E h \in HandleArgs, isArray \in BOOLEAN :
        IF ~IsExternal(h) \/ ~isArray
        THEN /\ last' = Throw([Call("processPlanar", h) EXCEPT !.typed = isArray])
             /\ UNCHANGED <<models, handles, wrappers>>
        ELSE \E arrays \in PlanarArgs, nc \in NumChannelsArgs, nf \in NumFramesArgs :
            LET c == [Call("processPlanar", h) EXCEPT
                          !.typed = TRUE, !.buf = arrays, !.out = arrays,
                          !.nc = nc, !.nf = nf]
                num_channels == Uint16(nc)
                num_frames == nf
            IN  IF PlanarLoopThrows(arrays, num_channels)
                THEN /\ last' = Throw(c)
                     /\ UNCHANGED <<models, handles, wrappers>>
                ELSE IF IsDangling(h) THEN Dangling(c)
                ELSE Processed(c, aic_model_process_planar(
                                      models[Data(h)], arrays, num_channels,
                                      num_frames))

\* What the getParameter lambda returns for a live model: {error, value}, the
\* value starting at 0.0f.
GetParameterReturn(m, param) ==
    LET r == aic_model_get_parameter(m, param, 0)
    IN  [error |-> r.err, value |-> r.value]

\* The setParameter lambda with the value read from info[1], the index it
\* has in ModelWrapper::SetParameter, where no handle comes first.
SetParameterArgsShifted(a1, a2) == [param |-> a1, value |-> a1]

\* What the setParameter lambda hands to the SDK: info[1] as the parameter
\* id and info[2] as the value.  The values passed are float32 numbers, which
\* FloatValue() returns exactly.
SetParameterArgs(a1, a2) == [param |-> a1, value |-> a2]

\* setParameter(handle, parameter, value)
SetParameter ==
    \E h \in HandleArgs :
        IF ~IsExternal(h)
        THEN /\ last' = Throw(Call("setParameter", h))
             /\ UNCHANGED <<models, handles, wrappers>>
        ELSE IF IsDangling(h) THEN Dangling(Call("setParameter", h))
        ELSE \E p \in ParamArgs, v \in ValueArgs :
            LET c == [Call("setParameter", h) EXCEPT !.param = p, !.val = v]
                model == Data(h)
                a == SetParameterArgs(p, v)
                r == aic_model_set_parameter(models[model], a.param, a.value)
            IN  /\ models' = [models EXCEPT ![model] = r.model]
                /\ last' = [c EXCEPT
                       !.sdk = TRUE, !.ret = r.err,
                       !.before = [q \in ParamArgs |->
                                      GetParameterReturn(models[model], q)]]
                /\ UNCHANGED <<handles, wrappers>>

\* getParameter(handle, parameter)
GetParameter ==
    \E h \in HandleArgs :
        IF ~IsExternal(h)
        THEN /\ last' = Throw(Call("getParameter", h))
             /\ UNCHANGED <<models, handles, wrappers>>
        ELSE IF IsDangling(h) THEN Dangling(Call("getParameter", h))
        ELSE \E p \in ParamArgs :
            LET c == [Call("getParameter", h) EXCEPT !.param = p]
                r == GetParameterReturn(models[Data(h)], p)
            IN  /\ last' = [c EXCEPT !.sdk = TRUE, !.ret = r.error,
                                     !.value = r.value]
                /\ UNCHANGED <<models, handles, wrappers>>

\* The three queries share one shape: {error, <value>}, the value starting at 0.
Query(op, h, r) ==
    LET c == Call(op, h)
    IN  IF ~IsExternal(h)
        THEN /\ last' = Throw(c)
             /\ UNCHANGED <<models, handles, wrappers>>
        ELSE IF IsDangling(h) THEN Dangling(c)
        ELSE /\ last' = [c EXCEPT !.sdk = TRUE, !.ret = r.err, !.value = r.value]
             /\ UNCHANGED <<models, handles, wrappers>>

\* getOutputDelay(handle)
GetOutputDelay ==
    \E h \in HandleArgs :
        Query("getOutputDelay", h, aic_get_output_delay(models[Data(h)], 0))

\* getOptimalSampleRate(handle)
GetOptimalSampleRate ==
    \E h \in HandleArgs :
        Query("getOptimalSampleRate", h,
              aic_get_optimal_sample_rate(models[Data(h)], 0))

\* getOptimalNumFrames(handle)
GetOptimalNumFrames ==
    \E h \in HandleArgs :
        Query("getOptimalNumFrames", h,
              aic_get_optimal_num_frames(models[Data(h)], 0))

(***************************************************************************)
(* ModelWrapper: an object that owns a model pointer and destroys the      *)
(* model when it is finalized.                                             *)
(***************************************************************************)
\* new ModelWrapper(handle): model_ is the External's pointer; a second owner
\* of the model beside the External itself.
WrapperNew ==
    \E w \in WrapperIds, h \in HandleArgs :
        /\ wrappers[w] = 0
        /\ IF ~IsExternal(h)
           THEN /\ last' = Throw(Call("ModelWrapper", h))
                /\ UNCHANGED wrappers
           ELSE /\ last' = Call("ModelWrapper", h)
                /\ wrappers' = [wrappers EXCEPT ![w] = Data(h)]
        /\ UNCHANGED <<models, handles>>

\* ~ModelWrapper(), run by the garbage collector at a time of its choosing.
WrapperFinalize ==
    \E w \in WrapperIds :
        LET model_ == wrappers[w]
        IN  /\ model_ # 0
            /\ models[model_].destroyCalls < MaxDestroyCalls
            /\ models' = [models EXCEPT ![model_] = aic_model_destroy(models[model_])]
            /\ wrappers' = [wrappers EXCEPT ![w] = 0]
            /\ last' = [Call("~ModelWrapper", External(model_)) EXCEPT
                            !.sdk = TRUE, !.stale = IsDangling(External(model_))]
            /\ UNCHANGED handles

\* ModelWrapper::Initialize(sample_rate, num_channels, num_frames)
WrapperInitialize ==
    \E w \in WrapperIds, argc \in {0, 3} :
        /\ wrappers[w] # 0
        /\ LET h == External(wrappers[w])
           IN  IF argc < 3
               THEN /\ last' = Throw(Call("ModelWrapper.initialize", h))
                    /\ UNCHANGED <<models, handles, wrappers>>
               ELSE IF IsDangling(h)
               THEN Dangling(Call("ModelWrapper.initialize", h))
               ELSE \E sr \in SampleRateArgs, nc \in NumChannelsArgs,
                       nf \in NumFramesArgs :
                   LET c == [Call("ModelWrapper.initialize", h) EXCEPT
                                 !.sr = sr, !.nc = nc, !.nf = nf]
                       sample_rate == sr
                       num_channels == Uint16(nc)
                       num_frames == nf
                       r == aic_model_initialize(models[Data(h)], sample_rate,
                                                 num_channels, num_frames)
                   IN  /\ models' = [models EXCEPT ![Data(h)] = r.model]
                       /\ last' = [c EXCEPT !.sdk = TRUE, !.ret = r.err]
                       /\ UNCHANGED <<handles, wrappers>>

\* ModelWrapper::ProcessInterleaved(Float32Array, num_channels, num_frames)
WrapperProcessInterleaved ==
    \E w \in WrapperIds, typed \in BOOLEAN :
        /\ wrappers[w] # 0
        /\ LET h == External(wrappers[w])
           IN  IF ~typed
               THEN /\ last' = Throw(Call("ModelWrapper.processInterleaved", h))
                    /\ UNCHANGED <<models, handles, wrappers>>
               ELSE IF IsDangling(h)
               THEN Dangling([Call("ModelWrapper.processInterleaved", h) EXCEPT
                                  !.typed = TRUE])
               ELSE \E len \in BufferLens, nc \in NumChannelsArgs,
                       nf \in NumFramesArgs :
                   LET array == Float32Array(len)
                       c == [Call("ModelWrapper.processInterleaved", h) EXCEPT
                                 !.typed = TRUE, !.buf = array, !.out = array,
                                 !.nc = nc, !.nf = nf]
                       a == InterleavedArgs(array, nc, nf)
                   IN  Processed(c, aic_model_process_interleaved(
                                        models[Data(h)], a.data, a.num_channels,
                                        a.num_frames))

Next ==
    \/ CreateModel
    \/ DestroyModel
    \/ Initialize
    \/ Reset
    \/ ProcessInterleaved
    \/ ProcessPlanar
    \/ SetParameter
    \/ GetParameter
    \/ GetOutputDelay
    \/ GetOptimalSampleRate
    \/ GetOptimalNumFrames
    \/ WrapperNew
    \/ WrapperFinalize
    \/ WrapperInitialize
    \/ WrapperProcessInterleaved

Spec == Init /\ [][Next]_vars


\* The exported functions that change a model: creation, configuration,
\* parameters and teardown.  The streaming calls and the queries leave every
\* model as it is, and a ModelWrapper initializes and destroys a model as
\* initialize and destroyModel do.
NextControl ==
    \/ CreateModel
    \/ DestroyModel
    \/ Initialize
    \/ Reset
    \/ SetParameter
    \/ GetParameter

SpecControl == Init /\ [][NextControl]_vars

(***************************************************************************)
(* Properties.                                                             *)
(***************************************************************************)
HandleOps ==
    {"initialize", "reset", "processInterleaved", "processPlanar",
     "setParameter", "getParameter", "getOutputDelay", "getOptimalSampleRate",
     "getOptimalNumFrames"}

ProcessOps == {"processInterleaved", "processPlanar"}

\* The model behind the latest call's handle.
Target == models[Data(last.h)]

\* C1: the SDK's destroy routine has been invoked at most once for each
\* created model, whatever sequence of createModel, destroyModel and
\* ModelWrapper construction and finalization has run.
C1_DestroyedAtMostOnce ==
    \A m \in ModelIds : models[m].destroyCalls <= 1

\* C2: a call of one of the nine handle operations on a destroyed handle
\* returns InvalidHandle and does not reach the SDK with the destroyed model.
C2_DestroyedHandleRejected ==
    (last.op \in HandleOps /\ last.pre = "Destroyed")
        => (last.ret = "InvalidHandle" /\ ~last.sdk)

\* The caller's buffer holds fewer samples than the dimensions passed ask for.
BufferShort ==
    IF last.op = "processInterleaved"
    THEN Len(last.buf) < last.nc * last.nf
    ELSE \E c \in 1..Len(last.buf) : c <= last.nc /\ Len(last.buf[c]) < last.nf

\* C3: a process call on a live handle whose Float32Array (or, for
\* processPlanar, one of whose channel arrays) is shorter than the dimensions
\* passed is rejected, and no memory outside the array is accessed.  (The
\* num_channels values here fit 16 bits and no channel array is missing.)
C3_OnlyCallerSamplesAccessed ==
    (/\ last.op \in ProcessOps /\ last.typed /\ ~last.threw
     /\ last.pre \in {"Created", "Initialized"}
     /\ last.nc < 65536
     /\ BufferShort)
        => (last.ret # "Success" /\ ~last.oob)

\* C4: createModel(model_type, license_key) returns a non-null handle, to a
\* model in state Created, exactly when it returns Success, and null with
\* every other error; and every model the SDK has created has a handle in
\* the caller's hands.
C4_CreateNeverPartial ==
    /\ (last.op = "createModel" /\ ~last.threw) =>
          /\ IsExternal(last.model) <=> last.ret = "Success"
          /\ last.ret # "Success" => last.model = Null
          /\ IsExternal(last.model) =>
                /\ Data(last.model) \in ModelIds
                /\ models[Data(last.model)].state = "Created"
    /\ \A m \in ModelIds : models[m].state # "Absent" => m \in handles

\* A createModel call that the SDK refused, with a valid model type.
C4_Witness ==
    /\ last.op = "createModel" /\ last.sdk
    /\ last.ret = "LicenseRejected" /\ last.model = Null

\* C5: no operation raises an exception; every failure is an error code in
\* the return value.
C5_NoOperationThrows == ~last.threw

\* C6: on a handle in state Created, a process call that passes a buffer
\* returns NotInitialized and leaves every sample unchanged.
C6_ProcessBeforeInitialize ==
    (last.op \in ProcessOps /\ last.typed /\ last.pre = "Created")
        => (last.ret = "NotInitialized" /\ last.out = last.buf /\ ~last.threw)

\* C7: on an initialized handle, a process call whose num_channels argument,
\* as the caller passed it, differs from the configured channel count returns
\* InvalidArgument.  (Calls that threw or left the buffer are set aside.)
C7_ChannelMismatchRejected ==
    (/\ last.op \in ProcessOps /\ last.pre = "Initialized"
     /\ ~last.threw /\ ~last.oob
     /\ last.nc # Target.numChannels)
        => last.ret = "InvalidArgument"

\* C8: right after an initialize with a fixed frame size (variable_frames =
\* FALSE) has succeeded on a handle, a process call on it that passes a
\* buffer and a num_frames different from the configured one returns
\* InvalidArgument and leaves the buffer as it was.
C8_FrameMismatchRejected ==
    [][(/\ last.op = "initialize" /\ ~last.vf /\ last.ret = "Success"
        /\ last'.op \in ProcessOps /\ last'.h = last.h /\ last'.typed
        /\ last'.nf # last.nf)
          => (last'.ret = "InvalidArgument" /\ last'.out = last'.buf)]_vars

\* The buffer of the call just made holds every sample its dimensions name.
BufferAdequate(c) ==
    IF c.op = "processInterleaved"
    THEN Len(c.buf) >= c.nc * c.nf
    ELSE Len(c.buf) >= c.nc /\ \A i \in 1..Len(c.buf) : Len(c.buf[i]) >= c.nf

\* C9: right after an initialize with variable_frames = TRUE has succeeded
\* on a handle, a process call on it with the configured channel count, any
\* positive num_frames and a buffer that holds that many frames succeeds.
C9_VariableFramesAccepted ==
    [][(/\ last.op = "initialize" /\ last.vf /\ last.ret = "Success"
        /\ last.nc < 65536
        /\ last'.op \in ProcessOps /\ last'.h = last.h /\ last'.typed
        /\ last'.nc = last.nc /\ last'.nf > 0
        /\ BufferAdequate(last'))
          => last'.ret = "Success"]_vars

\* The value lies outside the declared range of the (recognized) parameter.
OutOfRange(param, value) ==
    /\ param \in Params
    /\ value < ParamInfo[param].lo \/ value > ParamInfo[param].hi

====
